---- MODULE Spec2Model ----
(***************************************************************************)
(* A model of pinkant/raft: the Log (src/log.py), the Raft Server with its *)
(* election driver, heartbeat/sync driver and request handlers             *)
(* (src/server.py).  Handlers and driver steps run between the points      *)
(* where a thread blocks (a timed wait or an outbound RPC); a request is   *)
(* in flight from the send until the recipient's handler runs, and a       *)
(* sender that gives up waiting leaves its request lost or delayed.        *)
(***************************************************************************)
EXTENDS Integers, Sequences, FiniteSets, TLC

\* ---------------------------------------------------------------- bounds
MaxTerm == 2
MaxElections == 2
MaxBeats == 1
MaxRequests == 4
MaxFaults == 1
MaxDelayed == 1
MaxInFlight == 1
MaxUnitLen == 3
MaxUnitTerm == 2
MaxRaceTerm == 2
MaxRaceElections == 1
MaxRaceBeats == 1
MaxRaceRequests == 1
MaxDupRequests == 2
MaxDupCopies == 1
MaxLiveRequests == 2
MaxLiveInFlight == 2
MaxClientRequests == 3
MaxClientBeats == 1
MaxSignalTerm == 2
MaxSignalElections == 2
MaxSignalBeats == 2

\* --------------------------------------------------------------- cluster
Servers == {1, 2, 3}
None == 0
Threads == {"e", "h", "c", "d"}

\* the replica observed when a single replica is
Me == 1

\* the threads that run handle_client_append_entry_request
Handlers == {"c", "d"}

\* self.servers after `del self.servers[server_index]`: the other ids, in order
RECURSIVE SeqOfSet(_)
SeqOfSet(S) ==
    IF S = {} THEN << >>
    ELSE LET m == CHOOSE x \in S : \A y \in S : x <= y
         IN  << m >> \o SeqOfSet(S \ {m})

PeerList(s) == SeqOfSet(Servers \ {s})

majority == (Cardinality(Servers) \div 2) + 1

\* ------------------------------------------------------------------- Log
\* Python list indexing l[k] (0-based, negative k counts from the end)
PyInRange(l, k) == (0 - Len(l)) <= k /\ k < Len(l)
PyAt(l, k) == IF k >= 0 THEN l[k + 1] ELSE l[Len(l) + k + 1]

\* Python slice l[:k]
PySliceTo(l, k) ==
    LET n == IF k >= 0 THEN (IF k < Len(l) THEN k ELSE Len(l))
             ELSE (IF Len(l) + k > 0 THEN Len(l) + k ELSE 0)
    IN  SubSeq(l, 1, n)

LogEntry(term, entry) == [term |-> term, entry |-> entry]

append_item(l, term, entry) == Append(l, LogEntry(term, entry))

len(l) == Len(l)

\* get_item_term raises IndexError when log[index - 1] is out of range
get_item_term_ok(l, index) == index = 0 \/ PyInRange(l, index - 1)
get_item_term(l, index) == IF index # 0 THEN PyAt(l, index - 1).term ELSE 0

\* get_item raises IndexError when log[index - 1] is out of range
get_item_ok(l, index) == Len(l) + 1 = index \/ PyInRange(l, index - 1)
get_item(l, index) == IF Len(l) + 1 = index THEN None ELSE PyAt(l, index - 1).entry

\* sync_at_item with line 49 left out: a matching entry does not truncate
sync_at_item_no_truncate(l, index, term) ==
    IF len(l) < index
    THEN [ok |-> TRUE, ret |-> FALSE, log |-> l]
    ELSE IF ~get_item_term_ok(l, index)
    THEN [ok |-> FALSE, ret |-> FALSE, log |-> l]
    ELSE IF get_item_term(l, index) # term
    THEN LET l2 == PySliceTo(l, index - 1)
         IN  [ok |-> TRUE, ret |-> (len(l2) = 0), log |-> l2]
    ELSE [ok |-> TRUE, ret |-> TRUE, log |-> l]

\* sync_at_item with the test of line 37 answering True
sync_at_item_accept_beyond(l, index, term) ==
    IF len(l) < index
    THEN [ok |-> TRUE, ret |-> TRUE, log |-> l]
    ELSE IF ~get_item_term_ok(l, index)
    THEN [ok |-> FALSE, ret |-> FALSE, log |-> l]
    ELSE IF get_item_term(l, index) # term
    THEN LET l2 == PySliceTo(l, index - 1)
         IN  [ok |-> TRUE, ret |-> (len(l2) = 0), log |-> l2]
    ELSE [ok |-> TRUE, ret |-> TRUE, log |-> PySliceTo(l, index)]

\* sync_at_item: [ok |-> completed without raising, ret |-> result, log |-> log after]
sync_at_item(l, index, term) ==
    IF len(l) < index
    THEN [ok |-> TRUE, ret |-> FALSE, log |-> l]
    ELSE IF ~get_item_term_ok(l, index)
    THEN [ok |-> FALSE, ret |-> FALSE, log |-> l]
    ELSE IF get_item_term(l, index) # term
    THEN LET l2 == PySliceTo(l, index - 1)
         IN  [ok |-> TRUE, ret |-> (len(l2) = 0), log |-> l2]
    ELSE [ok |-> TRUE, ret |-> TRUE, log |-> PySliceTo(l, index)]

\* ----------------------------------------------------------------- state
VARIABLES
    role,            \* Server.role
    talkedToLeader,  \* Server.talked_to_leader: "False", "True" or "None"
    currentTerm,     \* Server.current_term
    votedFor,        \* Server.voted_for (None = 0)
    log,             \* Server.log
    leaderId,        \* Server.leader_id
    commitIndex,     \* Server.commit_index
    nextIndex,       \* Server.followers_next_indexes
    matchIndex,      \* Server.followers_match_indexes
    pc,              \* where each thread of each server stands
    req,             \* the request a thread has sent and waits on
    resp,            \* the response the transport holds for a waiting thread
    srvIdx,          \* position of a thread's loop in self.servers (0-based)
    votes,           \* do_elections: votes
    entryIndex,      \* handle_client_append_entry_request: entry_index
    clientEntry,     \* handle_client_append_entry_request: entry
    delayed,         \* requests whose sender gave up, still in the network
    elections,       \* number of election timeouts that started an election
    beats,           \* number of heartbeat passes started by a leader
    requests,        \* number of client requests accepted by a leader
    faults,          \* number of requests the transport failed to answer
    granted,         \* history: <<voter, request term, candidate>> granted
    acked,           \* history: <<index, payload>> acknowledged to a client
    handler,         \* the AppendEntries handler thread while it runs statement by statement
    readTerm,        \* do_elections: the value read by `self.current_term += 1`
    pending,         \* a leader holds a higher-term reply and has not yet changed role
    tlog,            \* a Log object exercised on its own (as in test_log.py)
    tcall,           \* the last call made on tlog, its arguments and its result
    leader,          \* Client.leader (None = 0)
    cpc,             \* where Client.append_entries stands
    result           \* Client.append_entries: the last result of the transport

vars == << role, talkedToLeader, currentTerm, votedFor, log, leaderId,
           commitIndex, nextIndex, matchIndex, pc, req, resp, srvIdx, votes,
           entryIndex, clientEntry, delayed, elections, beats, requests, faults,
           granted, acked, handler, readTerm, pending, tlog, tcall,
           leader, cpc, result >>

clusterVars == << role, talkedToLeader, currentTerm, votedFor, log, leaderId,
                  commitIndex, nextIndex, matchIndex, pc, req, resp, srvIdx, votes,
                  entryIndex, clientEntry, delayed, elections, beats, requests,
                  faults, granted, acked >>

raceVars == << handler, readTerm, pending >>

unitVars == << tlog, tcall >>

clientVars == << leader, cpc, result >>

budgetVars == << elections, beats, requests, faults >>

serverVars == << role, talkedToLeader, currentTerm, votedFor, log, leaderId,
                 commitIndex, nextIndex, matchIndex >>

NoMsg == [type |-> "none"]
Null == [type |-> "null"]
NoCall == [op |-> "none"]

InitCluster ==
    /\ role = [s \in Servers |-> "Follower"]
    /\ talkedToLeader = [s \in Servers |-> "False"]
    /\ currentTerm = [s \in Servers |-> 0]
    /\ votedFor = [s \in Servers |-> None]
    /\ log = [s \in Servers |-> << >>]
    /\ leaderId = [s \in Servers |-> None]
    /\ commitIndex = [s \in Servers |-> 0]
    /\ nextIndex = [s \in Servers |-> << >>]
    /\ matchIndex = [s \in Servers |-> << >>]
    /\ pc = [s \in Servers |-> [t \in Threads |->
                IF t = "e" THEN "wait" ELSE IF t = "h" THEN "waitN" ELSE "idle"]]
    /\ req = [s \in Servers |-> [t \in Threads |-> NoMsg]]
    /\ resp = [s \in Servers |-> [t \in Threads |-> NoMsg]]
    /\ srvIdx = [s \in Servers |-> [t \in Threads |-> 0]]
    /\ votes = [s \in Servers |-> 0]
    /\ entryIndex = [s \in Servers |-> [t \in Handlers |-> 0]]
    /\ clientEntry = [s \in Servers |-> [t \in Handlers |-> None]]
    /\ delayed = {}
    /\ elections = 0
    /\ beats = 0
    /\ requests = 0
    /\ faults = 0
    /\ granted = {}
    /\ acked = {}

InitRace ==
    /\ handler = NoMsg
    /\ readTerm = 0
    /\ pending = FALSE

InitUnit ==
    /\ tlog = << >>
    /\ tcall = NoCall

InitClient ==
    /\ leader = None
    /\ cpc = "idle"
    /\ result = NoMsg

Init == InitCluster /\ InitRace /\ InitUnit /\ InitClient

\* ------------------------------------------------- AppendEntries handler
AEResponse(term, success) == [type |-> "AEresp", term |-> term, success |-> success]

\* handle_append_entry_request, lines 94-113 (the request is not stale), with the
\* reply term `term` taken at line 86: the reply (Null when the handler raises)
\* and the log and commit index after
AcceptResult(s, m, term) ==
    LET sync == sync_at_item(log[s], m.prevLogIndex, m.prevLogTerm)
        log2 == IF m.entry # None THEN append_item(sync.log, m.term, m.entry)
                ELSE sync.log
        commit2 == IF m.leaderCommit > commitIndex[s]
                   THEN (IF m.leaderCommit < len(log2) THEN m.leaderCommit ELSE len(log2))
                   ELSE commitIndex[s]
    IN  IF ~sync.ok
        THEN [reply |-> Null, log |-> log[s], commit |-> commitIndex[s]]
        ELSE IF ~sync.ret
        THEN [reply |-> AEResponse(term, FALSE), log |-> sync.log, commit |-> commitIndex[s]]
        ELSE [reply |-> AEResponse(term, TRUE), log |-> log2, commit |-> commit2]

AcceptAppendEntry(s, m) ==
    LET r == AcceptResult(s, m, currentTerm[s])
    IN  /\ role' = [role EXCEPT ![s] = "Follower"]
        /\ talkedToLeader' = [talkedToLeader EXCEPT ![s] = "True"]
        /\ leaderId' = [leaderId EXCEPT ![s] = m.leaderId]
        /\ currentTerm' = [currentTerm EXCEPT ![s] = m.term]
        /\ votedFor' = [votedFor EXCEPT ![s] = None]
        /\ log' = [log EXCEPT ![s] = r.log]
        /\ commitIndex' = [commitIndex EXCEPT ![s] = r.commit]

\* handle_append_entry_request on server s for request m, as one step
AppendEntryReply(s, m) ==
    IF m.term < currentTerm[s] THEN AEResponse(currentTerm[s], FALSE)
    ELSE AcceptResult(s, m, currentTerm[s]).reply

\* handle_append_entry_request without the test of line 89
handle_append_entry_request_no_term_test(s, m) ==
    /\ AcceptAppendEntry(s, m)
    /\ UNCHANGED << nextIndex, matchIndex, granted >>

handle_append_entry_request(s, m) ==
    /\ IF m.term < currentTerm[s]
       THEN UNCHANGED << role, talkedToLeader, leaderId, currentTerm, votedFor, log,
                         commitIndex >>
       ELSE AcceptAppendEntry(s, m)
    /\ UNCHANGED << nextIndex, matchIndex, granted >>

\* --------------------------------------------------- RequestVote handler
RVResponse(term, voteGranted) ==
    [type |-> "RVresp", term |-> term, voteGranted |-> voteGranted]

\* VoteGranted without the test of line 134
VoteGranted_ignoring_voted_for(s, m) ==
    LET last_term == get_item_term(log[s], len(log[s]))
    IN  /\ ~(m.term < currentTerm[s])
        /\ ~(last_term > m.lastLogTerm)
        /\ ~(len(log[s]) > m.lastLogIndex)

VoteGranted(s, m) ==
    LET last_term == get_item_term(log[s], len(log[s]))
    IN  /\ ~(m.term < currentTerm[s])
        /\ ~(votedFor[s] # None /\ votedFor[s] # m.candidateId)
        /\ ~(last_term > m.lastLogTerm)
        /\ ~(len(log[s]) > m.lastLogIndex)

handle_vote_request(s, m) ==
    /\ votedFor' = IF VoteGranted(s, m) THEN [votedFor EXCEPT ![s] = m.candidateId]
                   ELSE votedFor
    /\ granted' = IF VoteGranted(s, m)
                  THEN granted \cup {<< s, m.term, m.candidateId >>}
                  ELSE granted
    /\ UNCHANGED << role, talkedToLeader, currentTerm, log, leaderId, commitIndex,
                    nextIndex, matchIndex >>

\* the handler the transport invokes at the recipient, and what it answers
Handle(m) ==
    IF m.type = "AE" THEN handle_append_entry_request(m.dst, m)
    ELSE handle_vote_request(m.dst, m)

Reply(m) ==
    IF m.type = "AE" THEN AppendEntryReply(m.dst, m)
    ELSE RVResponse(currentTerm[m.dst], VoteGranted(m.dst, m))

\* ------------------------------------------------------------- transport
\* The recipient handles the request a waiting thread has sent.
Deliver(s, t) ==
    /\ pc[s][t] = "sent"
    /\ Handle(req[s][t])
    /\ resp' = [resp EXCEPT ![s][t] = Reply(req[s][t])]
    /\ pc' = [pc EXCEPT ![s][t] = "replied"]
    /\ UNCHANGED << req, srvIdx, votes, entryIndex, clientEntry, delayed, budgetVars,
                    acked >>
    /\ UNCHANGED << raceVars, unitVars, clientVars >>

\* The recipient handles a request whose sender has stopped waiting.
DeliverDelayed(m) ==
    /\ m \in delayed
    /\ Handle(m)
    /\ delayed' = delayed \ {m}
    /\ UNCHANGED << pc, req, resp, srvIdx, votes, entryIndex, clientEntry, budgetVars,
                    acked >>
    /\ UNCHANGED << raceVars, unitVars, clientVars >>

\* The threads of the cluster that are waiting for the transport to return
InFlight == {st \in Servers \X Threads : pc[st[1]][st[2]] \in {"sent", "replied"}}

\* What the transport returns to thread t of s: the reply, or Null on a timeout
\* (the request, if not yet handled, is then lost or stays in the network).
TransportReturns(s, t, r, keep, b) ==
    \/ /\ pc[s][t] = "replied"
       /\ r = resp[s][t]
       /\ ~keep
       /\ UNCHANGED << delayed, faults >>
    \/ /\ pc[s][t] = "replied"
       /\ resp[s][t] # Null
       /\ r = Null
       /\ ~keep
       /\ faults < b.faults
       /\ faults' = faults + 1
       /\ delayed' = delayed
    \/ /\ pc[s][t] = "sent"
       /\ r = Null
       /\ faults < b.faults
       /\ faults' = faults + 1
       /\ keep => Cardinality(delayed \cup {req[s][t]}) <= b.delayed
       /\ delayed' = IF keep THEN delayed \cup {req[s][t]} ELSE delayed

\* ------------------------------------------------------- election driver
RVRequest(s, p, term) ==
    [type |-> "RV", dst |-> p, term |-> term, candidateId |-> s,
     lastLogIndex |-> len(log[s]),
     lastLogTerm |-> get_item_term(log[s], len(log[s]))]

\* check_response_term: the role, term and leader id after, and the result
check_response_term(s, r) ==
    IF r.term > currentTerm[s]
    THEN [ret |-> FALSE, role |-> "Follower", term |-> r.term, leader |-> None]
    ELSE [ret |-> TRUE, role |-> role[s], term |-> currentTerm[s], leader |-> leaderId[s]]

\* heartbeat_lock.notify(): wakes the heartbeat thread if it is waiting
Notified(h) == IF h \in {"waitT", "waitN"} THEN "check" ELSE h

\* do_elections: the wait ends and the pass is skipped (talked_to_leader set)
ElectionSkip(s) ==
    /\ pc[s]["e"] = "wait"
    /\ role[s] # "Leader"
    /\ talkedToLeader[s] = "True"
    /\ talkedToLeader' = [talkedToLeader EXCEPT ![s] = "None"]
    /\ UNCHANGED << role, currentTerm, votedFor, log, leaderId, commitIndex,
                    nextIndex, matchIndex, pc, req, resp, srvIdx, votes,
                    entryIndex, clientEntry, delayed, budgetVars, granted, acked >>
    /\ UNCHANGED << raceVars, unitVars, clientVars >>

\* do_elections: the wait ends, the server becomes candidate and asks the first peer
StartElection(s, b) ==
    /\ pc[s]["e"] = "wait"
    /\ role[s] # "Leader"
    /\ talkedToLeader[s] # "True"
    /\ currentTerm[s] < b.term
    /\ elections < b.elections
    /\ Cardinality(InFlight) < b.inflight
    /\ elections' = elections + 1
    /\ role' = [role EXCEPT ![s] = "Candidate"]
    /\ currentTerm' = [currentTerm EXCEPT ![s] = @ + 1]
    /\ votes' = [votes EXCEPT ![s] = 1]
    /\ srvIdx' = [srvIdx EXCEPT ![s]["e"] = 0]
    /\ req' = [req EXCEPT ![s]["e"] = RVRequest(s, PeerList(s)[1], currentTerm[s] + 1)]
    /\ resp' = [resp EXCEPT ![s]["e"] = NoMsg]
    /\ pc' = [pc EXCEPT ![s]["e"] = "sent"]
    /\ UNCHANGED << talkedToLeader, votedFor, log, leaderId, commitIndex, nextIndex,
                    matchIndex, entryIndex, clientEntry, delayed, beats, requests,
                    faults, granted, acked >>
    /\ UNCHANGED << raceVars, unitVars, clientVars >>

\* do_elections: the vote request returns; count the vote, win, give up or go on
ElectionRecv(s, r, keep, b) ==
    /\ pc[s]["e"] \in {"sent", "replied"}
    /\ TransportReturns(s, "e", r, keep, b)
    /\ LET c == IF r = Null
                THEN [ret |-> TRUE, role |-> role[s], term |-> currentTerm[s],
                      leader |-> leaderId[s]]
                ELSE check_response_term(s, r)
           cancel == r # Null /\ c.role = "Follower"
           votes2 == IF r # Null /\ ~cancel /\ r.voteGranted THEN votes[s] + 1
                     ELSE votes[s]
           won == r # Null /\ ~cancel /\ votes2 >= majority
           more == ~cancel /\ ~won /\ srvIdx[s]["e"] + 1 < Len(PeerList(s))
           peers == PeerList(s)
       IN  /\ role' = [role EXCEPT ![s] = IF won THEN "Leader" ELSE c.role]
           /\ currentTerm' = [currentTerm EXCEPT ![s] = c.term]
           /\ leaderId' = [leaderId EXCEPT ![s] = c.leader]
           /\ nextIndex' = IF won
                           THEN [nextIndex EXCEPT ![s] =
                                    [p \in Servers \ {s} |-> len(log[s]) + 1]]
                           ELSE nextIndex
           /\ matchIndex' = IF won
                            THEN [matchIndex EXCEPT ![s] = [p \in Servers \ {s} |-> 0]]
                            ELSE matchIndex
           /\ votes' = [votes EXCEPT ![s] = IF more THEN votes2 ELSE 0]
           /\ srvIdx' = [srvIdx EXCEPT ![s]["e"] = IF more THEN @ + 1 ELSE 0]
           /\ req' = [req EXCEPT ![s]["e"] =
                        IF more THEN RVRequest(s, peers[srvIdx[s]["e"] + 2], c.term)
                        ELSE NoMsg]
           /\ resp' = [resp EXCEPT ![s]["e"] = NoMsg]
           /\ pc' = [pc EXCEPT ![s] = [@ EXCEPT
                        !["e"] = IF more THEN "sent" ELSE "wait",
                        !["h"] = IF won THEN Notified(@) ELSE @]]
    /\ UNCHANGED << talkedToLeader, votedFor, log, commitIndex, entryIndex,
                    clientEntry, elections, beats, requests, granted, acked >>
    /\ UNCHANGED << raceVars, unitVars, clientVars >>

\* ------------------------------------------------ append_entry_to_follower
\* lines 308-311 complete without KeyError / IndexError
SendOK(s, p, l, next) ==
    /\ p \in DOMAIN next
    /\ get_item_term_ok(l, next[p] - 1)
    /\ get_item_ok(l, next[p])

\* the AppendEntries request built from log l, term, next-index table and commit index
AERequest(s, p, l, term, next, commit) ==
    [type |-> "AE", dst |-> p, term |-> term, leaderId |-> s,
     prevLogIndex |-> next[p] - 1,
     prevLogTerm |-> get_item_term(l, next[p] - 1),
     entry |-> get_item(l, next[p]),
     leaderCommit |-> commit]

\* try_leader_commit with committed_servers starting at 0: the leader not counted
try_leader_commit_without_self(commit, match, index) ==
    IF commit >= index THEN commit
    ELSE IF Cardinality({p \in DOMAIN match : match[p] >= index}) >= majority
            /\ DOMAIN match # {}
    THEN index
    ELSE commit

\* try_leader_commit: the commit index after
try_leader_commit(commit, match, index) ==
    IF commit >= index THEN commit
    ELSE IF 1 + Cardinality({p \in DOMAIN match : match[p] >= index}) >= majority
            /\ DOMAIN match # {}
    THEN index
    ELSE commit

\* append_entry_to_follower leaving the server as it is and returning None
AppendNone(s) ==
    [raised |-> FALSE, ret |-> None, role |-> role[s], term |-> currentTerm[s],
     leader |-> leaderId[s], next |-> nextIndex[s], match |-> matchIndex[s],
     commit |-> commitIndex[s]]

\* lines 335-345 on server s for the request m it sent and the result r, once
\* check_response_term has returned True: raised (AssertionError), the value
\* returned and the state after
AppendOutcome(s, m, r) ==
    LET p == m.dst
        next_index == m.prevLogIndex + 1
        same == AppendNone(s)
    IN  IF ~r.success
        THEN LET next2 == [nextIndex[s] EXCEPT ![p] = @ - 1]
             IN  [same EXCEPT !.next = next2, !.ret = next2[p],
                              !.raised = ~(next2[p] > 0)]
        ELSE IF m.entry # None
        THEN LET next2 == [nextIndex[s] EXCEPT ![p] = @ + 1]
                 match2 == [matchIndex[s] EXCEPT ![p] = next_index]
             IN  [same EXCEPT !.next = next2, !.match = match2, !.ret = next2[p],
                              !.commit = try_leader_commit(commitIndex[s], match2, next_index)]
        ELSE [same EXCEPT !.ret = nextIndex[s][p]]

\* lines 328-345 on server s for the request m it sent and the result r:
\* raised (AttributeError on a null result, AssertionError), the value returned
\* (None = 0) and the state after
AppendReply(s, m, r) ==
    LET same == AppendNone(s)
        c == check_response_term(s, r)
    IN  IF r = Null THEN [same EXCEPT !.raised = TRUE]
        ELSE IF ~c.ret
        THEN [same EXCEPT !.role = c.role, !.term = c.term, !.leader = c.leader]
        ELSE AppendOutcome(s, m, r)

ApplyAppendReply(s, a) ==
    /\ role' = [role EXCEPT ![s] = a.role]
    /\ currentTerm' = [currentTerm EXCEPT ![s] = a.term]
    /\ leaderId' = [leaderId EXCEPT ![s] = a.leader]
    /\ nextIndex' = [nextIndex EXCEPT ![s] = a.next]
    /\ matchIndex' = [matchIndex EXCEPT ![s] = a.match]
    /\ commitIndex' = [commitIndex EXCEPT ![s] = a.commit]

\* ------------------------------------------------- heartbeat/sync driver
\* send_heartbeats_and_sync_up: the wait has ended (timeout or notify); the role
\* check; a leader starts the pass over its peers
HeartbeatCheck(s, b) ==
    /\ pc[s]["h"] \in {"check", "waitT"}
    /\ role[s] = "Leader" => beats < b.beats /\ Cardinality(InFlight) < b.inflight
    /\ beats' = IF role[s] = "Leader" THEN beats + 1 ELSE beats
    /\ LET p == PeerList(s)[1]
           lead == role[s] = "Leader"
           ok == SendOK(s, p, log[s], nextIndex[s])
       IN  /\ pc' = [pc EXCEPT ![s]["h"] =
                        IF ~lead THEN "waitN" ELSE IF ok THEN "sent" ELSE "dead"]
           /\ req' = [req EXCEPT ![s]["h"] =
                        IF lead /\ ok
                        THEN AERequest(s, p, log[s], currentTerm[s], nextIndex[s],
                                       commitIndex[s])
                        ELSE NoMsg]
    /\ srvIdx' = [srvIdx EXCEPT ![s]["h"] = 0]
    /\ resp' = [resp EXCEPT ![s]["h"] = NoMsg]
    /\ UNCHANGED << serverVars, votes, entryIndex, clientEntry, delayed, elections,
                    requests, faults, granted, acked >>
    /\ UNCHANGED << raceVars, unitVars, clientVars >>

\* send_heartbeats_and_sync_up: an AppendEntries returns; same peer again, next peer, or wait
HeartbeatRecv(s, r, keep, b) ==
    /\ pc[s]["h"] \in {"sent", "replied"}
    /\ TransportReturns(s, "h", r, keep, b)
    /\ LET a == AppendReply(s, req[s]["h"], r)
           peers == PeerList(s)
           break == a.ret = None \/ a.ret > len(log[s])
           idx == IF break THEN srvIdx[s]["h"] + 1 ELSE srvIdx[s]["h"]
           more == ~a.raised /\ idx < Len(peers)
           ok == more /\ SendOK(s, peers[idx + 1], log[s], a.next)
       IN  /\ ApplyAppendReply(s, a)
           /\ pc' = [pc EXCEPT ![s]["h"] =
                        IF a.raised THEN "dead"
                        ELSE IF ~more THEN "waitT"
                        ELSE IF ok THEN "sent" ELSE "dead"]
           /\ srvIdx' = [srvIdx EXCEPT ![s]["h"] = IF ok THEN idx ELSE 0]
           /\ req' = [req EXCEPT ![s]["h"] =
                        IF ok
                        THEN AERequest(s, peers[idx + 1], log[s], a.term, a.next, a.commit)
                        ELSE NoMsg]
    /\ resp' = [resp EXCEPT ![s]["h"] = NoMsg]
    /\ UNCHANGED << talkedToLeader, votedFor, log, votes, entryIndex, clientEntry,
                    elections, beats, requests, granted, acked >>
    /\ UNCHANGED << raceVars, unitVars, clientVars >>

\* ---------------------------------------------------- ClientAppend handler
\* The payload a client submits: it names the replica and the index it is
\* submitted at, so requests at different replicas or indexes differ.
ClientPayloads(s) == {10 * s + len(log[s]) + 1}

\* handle_client_append_entry_request on a leader: append and ask the first peer
ClientRequest(s, t, e, b) ==
    /\ pc[s][t] = "idle"
    /\ role[s] = "Leader"
    /\ requests < b.requests
    /\ Cardinality(InFlight) < b.inflight
    /\ requests' = requests + 1
    /\ LET l2 == append_item(log[s], currentTerm[s], e)
           p == PeerList(s)[1]
           ok == SendOK(s, p, l2, nextIndex[s])
       IN  /\ log' = [log EXCEPT ![s] = l2]
           /\ entryIndex' = [entryIndex EXCEPT ![s][t] = IF ok THEN len(l2) ELSE 0]
           /\ clientEntry' = [clientEntry EXCEPT ![s][t] = IF ok THEN e ELSE None]
           /\ pc' = [pc EXCEPT ![s][t] = IF ok THEN "sent" ELSE "idle"]
           /\ req' = [req EXCEPT ![s][t] =
                        IF ok
                        THEN AERequest(s, p, l2, currentTerm[s], nextIndex[s], commitIndex[s])
                        ELSE NoMsg]
    /\ srvIdx' = [srvIdx EXCEPT ![s][t] = 0]
    /\ resp' = [resp EXCEPT ![s][t] = NoMsg]
    /\ UNCHANGED << role, talkedToLeader, currentTerm, votedFor, leaderId, commitIndex,
                    nextIndex, matchIndex, votes, delayed, elections, beats, faults,
                    granted, acked >>
    /\ UNCHANGED << raceVars, unitVars >>

\* handle_client_append_entry_request: an AppendEntries returns; answer the client or go on
ClientRecv(s, t, r, keep, b) ==
    /\ pc[s][t] \in {"sent", "replied"}
    /\ TransportReturns(s, t, r, keep, b)
    /\ LET a == AppendReply(s, req[s][t], r)
           peers == PeerList(s)
           lost == a.role # "Leader"
           committed == ~(a.ret = None) /\ ~(entryIndex[s][t] >= a.ret)
                        /\ a.commit = entryIndex[s][t]
           done == a.raised \/ lost \/ committed
           idx == IF a.ret # None /\ entryIndex[s][t] >= a.ret THEN srvIdx[s][t]
                  ELSE (srvIdx[s][t] + 1) % Len(peers)
           ok == ~done /\ SendOK(s, peers[idx + 1], log[s], a.next)
       IN  /\ ApplyAppendReply(s, a)
           /\ acked' = IF ~a.raised /\ ~lost /\ committed
                       THEN acked \cup {<< entryIndex[s][t], clientEntry[s][t] >>}
                       ELSE acked
           /\ pc' = [pc EXCEPT ![s][t] = IF ok THEN "sent" ELSE "idle"]
           /\ srvIdx' = [srvIdx EXCEPT ![s][t] = IF ok THEN idx ELSE 0]
           /\ entryIndex' = [entryIndex EXCEPT ![s][t] = IF ok THEN @ ELSE 0]
           /\ clientEntry' = [clientEntry EXCEPT ![s][t] = IF ok THEN @ ELSE None]
           /\ req' = [req EXCEPT ![s][t] =
                        IF ok
                        THEN AERequest(s, peers[idx + 1], log[s], a.term, a.next, a.commit)
                        ELSE NoMsg]
    /\ resp' = [resp EXCEPT ![s][t] = NoMsg]
    /\ UNCHANGED << talkedToLeader, votedFor, log, votes, elections, beats, requests,
                    granted >>
    /\ UNCHANGED << raceVars, unitVars >>

\* ---------------------------------------------------------- specification
Results(s, t) == {resp[s][t], Null}

ClusterNext(b) ==
    \/ \E s \in Servers : ElectionSkip(s)
    \/ \E s \in Servers : StartElection(s, b)
    \/ \E s \in Servers : \E r \in Results(s, "e") : \E keep \in BOOLEAN :
          ElectionRecv(s, r, keep, b)
    \/ \E s \in Servers : HeartbeatCheck(s, b)
    \/ \E s \in Servers : \E r \in Results(s, "h") : \E keep \in BOOLEAN :
          HeartbeatRecv(s, r, keep, b)
    \/ \E s \in Servers : \E e \in ClientPayloads(s) :
          ClientRequest(s, "c", e, b) /\ UNCHANGED clientVars
    \/ \E s \in Servers : \E r \in Results(s, "c") : \E keep \in BOOLEAN :
          ClientRecv(s, "c", r, keep, b) /\ UNCHANGED clientVars
    \/ \E s \in Servers : \E t \in Threads : Deliver(s, t)
    \/ \E m \in delayed : DeliverDelayed(m)

Bounds == [term |-> MaxTerm, elections |-> MaxElections, beats |-> MaxBeats,
           requests |-> MaxRequests, faults |-> MaxFaults, delayed |-> MaxDelayed,
           inflight |-> MaxInFlight]

Next == ClusterNext(Bounds)

Spec == Init /\ [][Next]_vars

\* ------------------------------------------------------ the Log on its own
\* The Log class driven directly, as test_log.py drives it: the object starts
\* with any content append_item can have built, and any call may follow.
UnitEntries == [term : 1 .. MaxUnitTerm, entry : {1, 2}]

UnitLogs == UNION {[1 .. n -> UnitEntries] : n \in 0 .. MaxUnitLen}

Call(op, index, term, ok, ret, val, before) ==
    [op |-> op, index |-> index, term |-> term, ok |-> ok, ret |-> ret,
     val |-> val, before |-> before]

SyncAtItem(index, term) ==
    LET r == sync_at_item(tlog, index, term)
    IN  /\ tlog' = r.log
        /\ tcall' = Call("sync", index, term, r.ok, r.ret, 0, tlog)
        /\ UNCHANGED << clusterVars, raceVars, clientVars >>

AppendItem(term, entry) ==
    /\ len(tlog) < MaxUnitLen
    /\ tlog' = append_item(tlog, term, entry)
    /\ tcall' = Call("append", 0, term, TRUE, TRUE, len(append_item(tlog, term, entry)), tlog)
    /\ UNCHANGED << clusterVars, raceVars, clientVars >>

InitLog == InitCluster /\ InitRace /\ InitClient /\ tlog \in UnitLogs /\ tcall = NoCall

NextLog ==
    \/ \E index \in 0 .. MaxUnitLen + 1 : \E term \in 0 .. MaxUnitTerm :
          SyncAtItem(index, term)
    \/ \E term \in 1 .. MaxUnitTerm : \E entry \in {1, 2} : AppendItem(term, entry)

SpecLog == InitLog /\ [][NextLog]_vars

\* --------------------------------------- one replica, statement by statement
\* Replica Me with its threads running unsynchronised (no lock guards role,
\* current_term or the log): a step is a stretch of one thread's code between
\* two accesses to the shared fields.  The peers are the environment: they send
\* any AppendEntries request and answer with any term.
RaceAERequests ==
    [type : {"AE"}, dst : {Me}, term : 1 .. MaxRaceTerm, leaderId : {2},
     prevLogIndex : {0}, prevLogTerm : {0}, entry : {None}, leaderCommit : {0}]

RaceVoteReplies == {RVResponse(t, g) : t \in 1 .. MaxRaceTerm, g \in BOOLEAN}

RaceAppendReplies == {AEResponse(t, ok) : t \in 1 .. MaxRaceTerm, ok \in BOOLEAN}

\* a leader holds a reply with a higher term and has not yet changed role
HoldsHigherTerm(r) == pending \/ (role[Me] = "Leader" /\ r.term > currentTerm[Me])

\* handle_append_entry_request, lines 85-89: the request is not stale
RaceAEBegin(m) ==
    /\ handler = NoMsg
    /\ ~(m.term < currentTerm[Me])
    /\ handler' = m
    /\ UNCHANGED << clusterVars, readTerm, pending, unitVars, clientVars >>

\* handle_append_entry_request, lines 94-113
RaceAEAccept ==
    /\ handler # NoMsg
    /\ AcceptAppendEntry(Me, handler)
    /\ handler' = NoMsg
    /\ pending' = FALSE
    /\ UNCHANGED << nextIndex, matchIndex, pc, req, resp, srvIdx, votes, entryIndex,
                    clientEntry, delayed, budgetVars, granted, acked, readTerm,
                    unitVars, clientVars >>

\* do_elections, lines 234-241: the pass is skipped
RaceElectionSkip == ElectionSkip(Me)

\* do_elections, lines 234-244: the wait ends and the server becomes candidate
RaceElectionTimeout ==
    /\ pc[Me]["e"] = "wait"
    /\ role[Me] # "Leader"
    /\ talkedToLeader[Me] # "True"
    /\ currentTerm[Me] < MaxRaceTerm
    /\ elections < MaxRaceElections
    /\ elections' = elections + 1
    /\ role' = [role EXCEPT ![Me] = "Candidate"]
    /\ pc' = [pc EXCEPT ![Me]["e"] = "load"]
    /\ UNCHANGED << talkedToLeader, currentTerm, votedFor, log, leaderId, commitIndex,
                    nextIndex, matchIndex, req, resp, srvIdx, votes, entryIndex,
                    clientEntry, delayed, beats, requests, faults, granted, acked,
                    raceVars, unitVars, clientVars >>

\* line 245, `self.current_term += 1`: the read
RaceTermLoad ==
    /\ pc[Me]["e"] = "load"
    /\ readTerm' = currentTerm[Me]
    /\ pc' = [pc EXCEPT ![Me]["e"] = "store"]
    /\ UNCHANGED << serverVars, req, resp, srvIdx, votes, entryIndex, clientEntry,
                    delayed, budgetVars, granted, acked, handler, pending, unitVars, clientVars >>

\* line 245, `self.current_term += 1`: the write; line 247
RaceTermStore ==
    /\ pc[Me]["e"] = "store"
    /\ currentTerm' = [currentTerm EXCEPT ![Me] = readTerm + 1]
    /\ readTerm' = 0
    /\ votes' = [votes EXCEPT ![Me] = 1]
    /\ srvIdx' = [srvIdx EXCEPT ![Me]["e"] = 0]
    /\ pc' = [pc EXCEPT ![Me]["e"] = "call"]
    /\ UNCHANGED << role, talkedToLeader, votedFor, log, leaderId, commitIndex,
                    nextIndex, matchIndex, req, resp, entryIndex, clientEntry,
                    delayed, budgetVars, granted, acked, handler, pending, unitVars, clientVars >>

\* lines 250-268: the vote request to the next peer returns r
RaceVoteReturn(r) ==
    /\ pc[Me]["e"] = "call"
    /\ LET more == srvIdx[Me]["e"] + 1 < Len(PeerList(Me))
       IN  IF r = Null
           THEN /\ srvIdx' = [srvIdx EXCEPT ![Me]["e"] = IF more THEN @ + 1 ELSE 0]
                /\ votes' = [votes EXCEPT ![Me] = IF more THEN @ ELSE 0]
                /\ pc' = [pc EXCEPT ![Me]["e"] = IF more THEN "call" ELSE "wait"]
                /\ UNCHANGED << resp, pending >>
           ELSE /\ resp' = [resp EXCEPT ![Me]["e"] = r]
                /\ pending' = HoldsHigherTerm(r)
                /\ pc' = [pc EXCEPT ![Me]["e"] = "crt"]
                /\ UNCHANGED << srvIdx, votes >>
    /\ UNCHANGED << serverVars, req, entryIndex, clientEntry, delayed, budgetVars,
                    granted, acked, handler, readTerm, unitVars, clientVars >>

\* check_response_term, line 379, in thread t
RaceCompare(t) ==
    /\ pc[Me][t] = "crt"
    /\ pc' = [pc EXCEPT ![Me][t] =
                IF resp[Me][t].term > currentTerm[Me] THEN "crt_role" ELSE "ok"]
    /\ UNCHANGED << serverVars, req, resp, srvIdx, votes, entryIndex, clientEntry,
                    delayed, budgetVars, granted, acked, raceVars, unitVars, clientVars >>

\* check_response_term, line 383, in thread t
RaceSetRole(t) ==
    /\ pc[Me][t] = "crt_role"
    /\ role' = [role EXCEPT ![Me] = "Follower"]
    /\ pending' = FALSE
    /\ pc' = [pc EXCEPT ![Me][t] = "crt_term"]
    /\ UNCHANGED << talkedToLeader, currentTerm, votedFor, log, leaderId, commitIndex,
                    nextIndex, matchIndex, req, resp, srvIdx, votes, entryIndex,
                    clientEntry, delayed, budgetVars, granted, acked, handler,
                    readTerm, unitVars, clientVars >>

\* check_response_term, lines 384-386, in thread t
RaceSetTerm(t) ==
    /\ pc[Me][t] = "crt_term"
    /\ currentTerm' = [currentTerm EXCEPT ![Me] = resp[Me][t].term]
    /\ leaderId' = [leaderId EXCEPT ![Me] = None]
    /\ pc' = [pc EXCEPT ![Me][t] = "switched"]
    /\ UNCHANGED << role, talkedToLeader, votedFor, log, commitIndex, nextIndex,
                    matchIndex, req, resp, srvIdx, votes, entryIndex, clientEntry,
                    delayed, budgetVars, granted, acked, raceVars, unitVars, clientVars >>

\* do_elections, lines 274-290, after check_response_term
RaceVoteCount ==
    /\ pc[Me]["e"] \in {"ok", "switched"}
    /\ LET cancel == role[Me] = "Follower"
           votes2 == IF ~cancel /\ resp[Me]["e"].voteGranted THEN votes[Me] + 1
                     ELSE votes[Me]
           won == ~cancel /\ votes2 >= majority
           more == ~cancel /\ ~won /\ srvIdx[Me]["e"] + 1 < Len(PeerList(Me))
       IN  /\ role' = [role EXCEPT ![Me] = IF won THEN "Leader" ELSE @]
           /\ nextIndex' = IF won
                           THEN [nextIndex EXCEPT ![Me] =
                                    [p \in Servers \ {Me} |-> len(log[Me]) + 1]]
                           ELSE nextIndex
           /\ matchIndex' = IF won
                            THEN [matchIndex EXCEPT ![Me] = [p \in Servers \ {Me} |-> 0]]
                            ELSE matchIndex
           /\ votes' = [votes EXCEPT ![Me] = IF more THEN votes2 ELSE 0]
           /\ srvIdx' = [srvIdx EXCEPT ![Me]["e"] = IF more THEN @ + 1 ELSE 0]
           /\ pc' = [pc EXCEPT ![Me] = [@ EXCEPT
                        !["e"] = IF more THEN "call" ELSE "wait",
                        !["h"] = IF won THEN Notified(@) ELSE @]]
    /\ resp' = [resp EXCEPT ![Me]["e"] = NoMsg]
    /\ UNCHANGED << talkedToLeader, currentTerm, votedFor, log, leaderId, commitIndex,
                    req, entryIndex, clientEntry, delayed, budgetVars, granted, acked,
                    raceVars, unitVars, clientVars >>

\* send_heartbeats_and_sync_up, lines 212-225: the wait has ended; the role check
RaceHeartbeatCheck ==
    /\ pc[Me]["h"] \in {"check", "waitT"}
    /\ role[Me] = "Leader" => beats < MaxRaceBeats
    /\ beats' = IF role[Me] = "Leader" THEN beats + 1 ELSE beats
    /\ pc' = [pc EXCEPT ![Me]["h"] = IF role[Me] = "Leader" THEN "call" ELSE "waitN"]
    /\ srvIdx' = [srvIdx EXCEPT ![Me]["h"] = 0]
    /\ UNCHANGED << serverVars, req, resp, votes, entryIndex, clientEntry, delayed,
                    elections, requests, faults, granted, acked, raceVars, unitVars, clientVars >>

\* where thread t stands once append_entry_to_follower has raised
Raised(t) == IF t = "h" THEN "dead" ELSE "idle"

\* append_entry_to_follower, lines 308-327, in thread t: the request is built and sent
RaceAppendSend(t) ==
    /\ t \in {"h", "c"}
    /\ pc[Me][t] = "call"
    /\ LET p == PeerList(Me)[srvIdx[Me][t] + 1]
           ok == SendOK(Me, p, log[Me], nextIndex[Me])
       IN  /\ pc' = [pc EXCEPT ![Me][t] = IF ok THEN "sent" ELSE Raised(t)]
           /\ req' = [req EXCEPT ![Me][t] =
                        IF ok
                        THEN AERequest(Me, p, log[Me], currentTerm[Me], nextIndex[Me],
                                       commitIndex[Me])
                        ELSE NoMsg]
           /\ srvIdx' = [srvIdx EXCEPT ![Me][t] = IF ok THEN @ ELSE 0]
           /\ entryIndex' = [entryIndex EXCEPT ![Me]["c"] = IF t = "c" /\ ~ok THEN 0 ELSE @]
           /\ clientEntry' = [clientEntry EXCEPT ![Me]["c"] =
                                IF t = "c" /\ ~ok THEN None ELSE @]
    /\ UNCHANGED << serverVars, resp, votes, delayed, budgetVars, granted, acked,
                    raceVars, unitVars, clientVars >>

\* append_entry_to_follower, lines 315-330, in thread t: the transport returns r
RaceAppendReturn(t, r) ==
    /\ t \in {"h", "c"}
    /\ pc[Me][t] = "sent"
    /\ IF r = Null
       THEN /\ pc' = [pc EXCEPT ![Me][t] = Raised(t)]
            /\ req' = [req EXCEPT ![Me][t] = NoMsg]
            /\ srvIdx' = [srvIdx EXCEPT ![Me][t] = 0]
            /\ entryIndex' = [entryIndex EXCEPT ![Me]["c"] = IF t = "c" THEN 0 ELSE @]
            /\ clientEntry' = [clientEntry EXCEPT ![Me]["c"] = IF t = "c" THEN None ELSE @]
            /\ UNCHANGED << resp, pending >>
       ELSE /\ resp' = [resp EXCEPT ![Me][t] = r]
            /\ pending' = HoldsHigherTerm(r)
            /\ pc' = [pc EXCEPT ![Me][t] = "crt"]
            /\ UNCHANGED << req, srvIdx, entryIndex, clientEntry >>
    /\ UNCHANGED << serverVars, votes, delayed, budgetVars, granted, acked, handler,
                    readTerm, unitVars, clientVars >>

\* what append_entry_to_follower does after check_response_term in thread t
RaceOutcome(t) ==
    IF pc[Me][t] = "ok" THEN AppendOutcome(Me, req[Me][t], resp[Me][t])
    ELSE AppendNone(Me)

\* lines 332-345 and 216-225: append_entry_to_follower returns to the heartbeat loop
RaceHeartbeatNext ==
    /\ pc[Me]["h"] \in {"ok", "switched"}
    /\ LET a == RaceOutcome("h")
           break == a.ret = None \/ a.ret > len(log[Me])
           idx == IF break THEN srvIdx[Me]["h"] + 1 ELSE srvIdx[Me]["h"]
           more == ~a.raised /\ idx < Len(PeerList(Me))
       IN  /\ nextIndex' = [nextIndex EXCEPT ![Me] = a.next]
           /\ matchIndex' = [matchIndex EXCEPT ![Me] = a.match]
           /\ commitIndex' = [commitIndex EXCEPT ![Me] = a.commit]
           /\ pc' = [pc EXCEPT ![Me]["h"] =
                        IF a.raised THEN "dead" ELSE IF more THEN "call" ELSE "waitT"]
           /\ srvIdx' = [srvIdx EXCEPT ![Me]["h"] = IF more THEN idx ELSE 0]
    /\ req' = [req EXCEPT ![Me]["h"] = NoMsg]
    /\ resp' = [resp EXCEPT ![Me]["h"] = NoMsg]
    /\ UNCHANGED << role, talkedToLeader, currentTerm, votedFor, log, leaderId, votes,
                    entryIndex, clientEntry, delayed, budgetVars, granted, acked,
                    raceVars, unitVars, clientVars >>

\* handle_client_append_entry_request, line 165: the role check
RaceClientCheck(e) ==
    /\ pc[Me]["c"] = "idle"
    /\ requests < MaxRaceRequests
    /\ role[Me] = "Leader"
    /\ requests' = requests + 1
    /\ clientEntry' = [clientEntry EXCEPT ![Me]["c"] = e]
    /\ pc' = [pc EXCEPT ![Me]["c"] = "append"]
    /\ UNCHANGED << serverVars, req, resp, srvIdx, votes, entryIndex, delayed,
                    elections, beats, faults, granted, acked, raceVars, unitVars, clientVars >>

\* handle_client_append_entry_request, lines 171-173: append_item
RaceClientAppend ==
    /\ pc[Me]["c"] = "append"
    /\ log' = [log EXCEPT ![Me] = append_item(@, currentTerm[Me], clientEntry[Me]["c"])]
    /\ entryIndex' = [entryIndex EXCEPT ![Me]["c"] = len(log[Me]) + 1]
    /\ srvIdx' = [srvIdx EXCEPT ![Me]["c"] = 0]
    /\ pc' = [pc EXCEPT ![Me]["c"] = "call"]
    /\ UNCHANGED << role, talkedToLeader, currentTerm, votedFor, leaderId, commitIndex,
                    nextIndex, matchIndex, req, resp, votes, clientEntry, delayed,
                    budgetVars, granted, acked, raceVars, unitVars, clientVars >>

\* lines 332-345 and 180-204: append_entry_to_follower returns to the client loop
RaceClientNext ==
    /\ pc[Me]["c"] \in {"ok", "switched"}
    /\ LET a == RaceOutcome("c")
           lost == role[Me] # "Leader"
           committed == ~(a.ret = None) /\ ~(entryIndex[Me]["c"] >= a.ret)
                        /\ a.commit = entryIndex[Me]["c"]
           done == a.raised \/ lost \/ committed
           idx == IF a.ret # None /\ entryIndex[Me]["c"] >= a.ret THEN srvIdx[Me]["c"]
                  ELSE (srvIdx[Me]["c"] + 1) % Len(PeerList(Me))
       IN  /\ nextIndex' = [nextIndex EXCEPT ![Me] = a.next]
           /\ matchIndex' = [matchIndex EXCEPT ![Me] = a.match]
           /\ commitIndex' = [commitIndex EXCEPT ![Me] = a.commit]
           /\ acked' = IF ~a.raised /\ ~lost /\ committed
                       THEN acked \cup {<< entryIndex[Me]["c"], clientEntry[Me]["c"] >>}
                       ELSE acked
           /\ pc' = [pc EXCEPT ![Me]["c"] = IF done THEN "idle" ELSE "call"]
           /\ srvIdx' = [srvIdx EXCEPT ![Me]["c"] = IF done THEN 0 ELSE idx]
           /\ entryIndex' = [entryIndex EXCEPT ![Me]["c"] = IF done THEN 0 ELSE @]
           /\ clientEntry' = [clientEntry EXCEPT ![Me]["c"] = IF done THEN None ELSE @]
    /\ req' = [req EXCEPT ![Me]["c"] = NoMsg]
    /\ resp' = [resp EXCEPT ![Me]["c"] = NoMsg]
    /\ UNCHANGED << role, talkedToLeader, currentTerm, votedFor, log, leaderId, votes,
                    delayed, budgetVars, granted, raceVars, unitVars, clientVars >>

NextRace ==
    \/ \E m \in RaceAERequests : RaceAEBegin(m)
    \/ RaceAEAccept
    \/ RaceElectionSkip
    \/ RaceElectionTimeout
    \/ RaceTermLoad
    \/ RaceTermStore
    \/ \E r \in RaceVoteReplies \cup {Null} : RaceVoteReturn(r)
    \/ \E t \in Threads : RaceCompare(t)
    \/ \E t \in Threads : RaceSetRole(t)
    \/ \E t \in Threads : RaceSetTerm(t)
    \/ RaceVoteCount
    \/ RaceHeartbeatCheck
    \/ \E t \in {"h", "c"} : RaceAppendSend(t)
    \/ \E t \in {"h", "c"} : \E r \in RaceAppendReplies \cup {Null} : RaceAppendReturn(t, r)
    \/ RaceHeartbeatNext
    \/ \E e \in ClientPayloads(Me) : RaceClientCheck(e)
    \/ RaceClientAppend
    \/ RaceClientNext

SpecRace == Init /\ [][NextRace]_vars

\* ------------------------------------------- a transport that duplicates
\* One election, no transport failure, and a network that may hold a second
\* copy of an AppendEntries request the recipient has processed with
\* success; DeliverDelayed hands the copy to the recipient later.
DeliverAndDuplicate(s, t) ==
    /\ pc[s][t] = "sent"
    /\ req[s][t].type = "AE"
    /\ Reply(req[s][t]) # Null
    /\ Reply(req[s][t]).success
    /\ Cardinality(delayed \cup {req[s][t]}) <= MaxDupCopies
    /\ Handle(req[s][t])
    /\ resp' = [resp EXCEPT ![s][t] = Reply(req[s][t])]
    /\ pc' = [pc EXCEPT ![s][t] = "replied"]
    /\ delayed' = delayed \cup {req[s][t]}
    /\ UNCHANGED << req, srvIdx, votes, entryIndex, clientEntry, budgetVars, acked >>
    /\ UNCHANGED << raceVars, unitVars, clientVars >>

DupBounds == [term |-> 1, elections |-> 1, beats |-> 1, requests |-> MaxDupRequests,
              faults |-> 0, delayed |-> 0, inflight |-> 1]

NextDup ==
    \/ ClusterNext(DupBounds)
    \/ \E s \in Servers : \E t \in Threads : DeliverAndDuplicate(s, t)

SpecDup == Init /\ [][NextDup]_vars

\* ------------------------------------ one stable leader, reachable peers
\* Only replica Me times out, once, so it stays the leader; no transport
\* failure; two ClientAppend handler threads (Flask serves each request in a
\* thread of its own).  Every thread of Me that can take its next step
\* eventually takes it, and every request it has sent is answered.
LiveBounds == [term |-> 1, elections |-> 1, beats |-> 1, requests |-> MaxLiveRequests,
               faults |-> 0, delayed |-> 0, inflight |-> MaxLiveInFlight]

NextLive ==
    \/ \E s \in Servers \ {Me} : ElectionSkip(s)
    \/ StartElection(Me, LiveBounds)
    \/ \E r \in Results(Me, "e") : ElectionRecv(Me, r, FALSE, LiveBounds)
    \/ HeartbeatCheck(Me, LiveBounds)
    \/ \E r \in Results(Me, "h") : HeartbeatRecv(Me, r, FALSE, LiveBounds)
    \/ \E t \in Handlers : \E e \in ClientPayloads(Me) :
          ClientRequest(Me, t, e, LiveBounds) /\ UNCHANGED clientVars
    \/ \E t \in Handlers : \E r \in Results(Me, t) :
          ClientRecv(Me, t, r, FALSE, LiveBounds) /\ UNCHANGED clientVars
    \/ \E t \in Threads : Deliver(Me, t)

LiveFairness ==
    /\ \A t \in Threads : WF_vars(Deliver(Me, t))
    /\ WF_vars(\E r \in Results(Me, "e") : ElectionRecv(Me, r, FALSE, LiveBounds))
    /\ WF_vars(\E r \in Results(Me, "h") : HeartbeatRecv(Me, r, FALSE, LiveBounds))
    /\ \A t \in Handlers :
          WF_vars(\E r \in Results(Me, t) :
                     ClientRecv(Me, t, r, FALSE, LiveBounds) /\ UNCHANGED clientVars)

SpecLive == Init /\ [][NextLive]_vars /\ LiveFairness

\* ------------------------------------------------------------ the client
\* One Client object calling append_entries against a cluster in which only
\* replica Me times out, with no transport failure.  The client's request is
\* served by handler thread "c" of the replica it is posted to.

\* the response of handle_client_append_entry_request as the client's
\* transport returns it
ClientResponse(success, l) == [type |-> "CA", success |-> success, leader |-> l]

\* What the handler thread t of s answers when r comes back from a follower:
\* NoMsg while it goes on to the next request, Null when it ends with an
\* exception (client_make_request turns the HTTP error into None).
HandlerAnswer(s, t, r) ==
    LET a == AppendReply(s, req[s][t], r)
        peers == PeerList(s)
        lost == a.role # "Leader"
        committed == ~(a.ret = None) /\ ~(entryIndex[s][t] >= a.ret)
                     /\ a.commit = entryIndex[s][t]
        idx == IF a.ret # None /\ entryIndex[s][t] >= a.ret THEN srvIdx[s][t]
               ELSE (srvIdx[s][t] + 1) % Len(peers)
    IN  IF a.raised THEN Null
        ELSE IF lost THEN ClientResponse(FALSE, a.leader)
        ELSE IF committed THEN ClientResponse(TRUE, a.leader)
        ELSE IF ~SendOK(s, peers[idx + 1], log[s], a.next) THEN Null
        ELSE NoMsg

\* ClientGets without line 61: a redirect leaves the cached leader as it was
ClientGets_ignoring_redirect(r) ==
    /\ result' = r
    /\ cpc' = IF r # Null /\ r.success THEN "done" ELSE "run"
    /\ leader' = IF r = Null \/ r.success THEN leader
                 ELSE IF r.leader = None THEN None
                 ELSE leader

\* Client.append_entries, lines 46-62: what the client does with a result
ClientGets(r) ==
    /\ result' = r
    /\ cpc' = IF r # Null /\ r.success THEN "done" ELSE "run"
    /\ leader' = IF r = Null \/ r.success THEN leader
                 ELSE IF r.leader = None THEN None
                 ELSE r.leader

\* a call of Client.append_entries begins; l is the leader cached by earlier calls
ClientBegin(l) ==
    /\ \/ cpc = "idle"
       \/ cpc = "done" /\ l = leader /\ requests < MaxClientRequests
    /\ cpc' = "run"
    /\ leader' = l
    /\ result' = NoMsg
    /\ UNCHANGED << clusterVars, raceVars, unitVars >>

\* Client.append_entries, lines 39-44: pick a replica if none is cached, post the request
ClientSend(x) ==
    /\ cpc = "run"
    /\ x \in (IF leader = None THEN Servers ELSE {leader})
    /\ leader' = x
    /\ cpc' = "sent"
    /\ UNCHANGED << result, clusterVars, raceVars, unitVars >>

\* the request reaches the replica: a non-leader answers at once (server.py
\* lines 165-170), a leader starts the handler
ClientArrive(e, b) ==
    /\ cpc = "sent"
    /\ \/ /\ role[leader] # "Leader"
          /\ ClientGets(ClientResponse(FALSE, leaderId[leader]))
          /\ UNCHANGED << clusterVars, raceVars, unitVars >>
       \/ /\ ClientRequest(leader, "c", e, b)
          /\ IF pc'[leader]["c"] = "idle"
             THEN ClientGets(Null)
             ELSE cpc' = "wait" /\ UNCHANGED << leader, result >>

\* the handler gets a reply from a follower and goes on, answers or raises
ClientHandlerStep(r, b) ==
    /\ cpc = "wait"
    /\ ClientRecv(leader, "c", r, FALSE, b)
    /\ LET out == HandlerAnswer(leader, "c", r)
       IN  IF out = NoMsg THEN UNCHANGED clientVars ELSE ClientGets(out)

ClientBounds == [term |-> 1, elections |-> 1, beats |-> MaxClientBeats,
                 requests |-> MaxClientRequests, faults |-> 0, delayed |-> 0,
                 inflight |-> 2]

\* the request in flight arrives with the payload of this call
ClientArrives ==
    /\ cpc = "sent"
    /\ \E e \in ClientPayloads(leader) : ClientArrive(e, ClientBounds)

\* the handler serving the client takes its next step
ClientHandlerSteps ==
    /\ cpc = "wait"
    /\ \E r \in Results(leader, "c") : ClientHandlerStep(r, ClientBounds)

NextClient ==
    \/ StartElection(Me, ClientBounds)
    \/ \E r \in Results(Me, "e") : ElectionRecv(Me, r, FALSE, ClientBounds)
    \/ HeartbeatCheck(Me, ClientBounds)
    \/ \E r \in Results(Me, "h") : HeartbeatRecv(Me, r, FALSE, ClientBounds)
    \/ \E t \in Threads : Deliver(Me, t)
    \/ \E l \in Servers \cup {None} : ClientBegin(l)
    \/ \E x \in Servers : ClientSend(x)
    \/ ClientArrives
    \/ ClientHandlerSteps

ClientFairness ==
    /\ \A t \in Threads : WF_vars(Deliver(Me, t))
    /\ WF_vars(\E r \in Results(Me, "e") : ElectionRecv(Me, r, FALSE, ClientBounds))
    /\ WF_vars(HeartbeatCheck(Me, ClientBounds))
    /\ WF_vars(\E r \in Results(Me, "h") : HeartbeatRecv(Me, r, FALSE, ClientBounds))
    /\ WF_vars(\E x \in Servers : ClientSend(x))
    /\ WF_vars(ClientArrives)
    /\ WF_vars(ClientHandlerSteps)

SpecClient == Init /\ [][NextClient]_vars /\ ClientFairness

\* ------------------------------------------- the promotion signal, by statement
\* The heartbeat thread's role check (line 211) and its wait (lines 223-224),
\* and the election thread's role assignment (line 284) and notify (lines
\* 287-288), as separate steps of the two threads.  Both threads have just
\* been started by the constructor; no transport failure.

\* the state after Server.__init__: the heartbeat thread is at its first role check
InitSignal ==
    /\ role = [s \in Servers |-> "Follower"]
    /\ talkedToLeader = [s \in Servers |-> "False"]
    /\ currentTerm = [s \in Servers |-> 0]
    /\ votedFor = [s \in Servers |-> None]
    /\ log = [s \in Servers |-> << >>]
    /\ leaderId = [s \in Servers |-> None]
    /\ commitIndex = [s \in Servers |-> 0]
    /\ nextIndex = [s \in Servers |-> << >>]
    /\ matchIndex = [s \in Servers |-> << >>]
    /\ pc = [s \in Servers |-> [t \in Threads |->
                IF t = "e" THEN "wait" ELSE IF t = "h" THEN "check" ELSE "idle"]]
    /\ req = [s \in Servers |-> [t \in Threads |-> NoMsg]]
    /\ resp = [s \in Servers |-> [t \in Threads |-> NoMsg]]
    /\ srvIdx = [s \in Servers |-> [t \in Threads |-> 0]]
    /\ votes = [s \in Servers |-> 0]
    /\ entryIndex = [s \in Servers |-> [t \in Handlers |-> 0]]
    /\ clientEntry = [s \in Servers |-> [t \in Handlers |-> None]]
    /\ delayed = {}
    /\ elections = 0
    /\ beats = 0
    /\ requests = 0
    /\ faults = 0
    /\ granted = {}
    /\ acked = {}
    /\ InitRace /\ InitUnit /\ InitClient

SignalBounds == [term |-> MaxSignalTerm, elections |-> MaxSignalElections,
                 beats |-> MaxSignalBeats, requests |-> 0, faults |-> 0,
                 delayed |-> 0, inflight |-> 2]

\* do_elections, lines 249-286: the vote request returns; the winner has assigned
\* the role and the index tables and stands before line 287
SignalElectionRecv(s, r, b) ==
    /\ pc[s]["e"] \in {"sent", "replied"}
    /\ TransportReturns(s, "e", r, FALSE, b)
    /\ LET c == IF r = Null
                THEN [ret |-> TRUE, role |-> role[s], term |-> currentTerm[s],
                      leader |-> leaderId[s]]
                ELSE check_response_term(s, r)
           cancel == r # Null /\ c.role = "Follower"
           votes2 == IF r # Null /\ ~cancel /\ r.voteGranted THEN votes[s] + 1
                     ELSE votes[s]
           won == r # Null /\ ~cancel /\ votes2 >= majority
           more == ~cancel /\ ~won /\ srvIdx[s]["e"] + 1 < Len(PeerList(s))
           peers == PeerList(s)
       IN  /\ role' = [role EXCEPT ![s] = IF won THEN "Leader" ELSE c.role]
           /\ currentTerm' = [currentTerm EXCEPT ![s] = c.term]
           /\ leaderId' = [leaderId EXCEPT ![s] = c.leader]
           /\ nextIndex' = IF won
                           THEN [nextIndex EXCEPT ![s] =
                                    [p \in Servers \ {s} |-> len(log[s]) + 1]]
                           ELSE nextIndex
           /\ matchIndex' = IF won
                            THEN [matchIndex EXCEPT ![s] = [p \in Servers \ {s} |-> 0]]
                            ELSE matchIndex
           /\ votes' = [votes EXCEPT ![s] = IF more THEN votes2 ELSE 0]
           /\ srvIdx' = [srvIdx EXCEPT ![s]["e"] = IF more THEN @ + 1 ELSE 0]
           /\ req' = [req EXCEPT ![s]["e"] =
                        IF more THEN RVRequest(s, peers[srvIdx[s]["e"] + 2], c.term)
                        ELSE NoMsg]
           /\ resp' = [resp EXCEPT ![s]["e"] = NoMsg]
           /\ pc' = [pc EXCEPT ![s]["e"] =
                        IF more THEN "sent" ELSE IF won THEN "promoted" ELSE "wait"]
    /\ UNCHANGED << talkedToLeader, votedFor, log, commitIndex, entryIndex,
                    clientEntry, elections, beats, requests, granted, acked >>
    /\ UNCHANGED << raceVars, unitVars, clientVars >>

\* do_elections, lines 287-289: notify under heartbeat_lock, then leave the loop
SignalNotify(s) ==
    /\ pc[s]["e"] = "promoted"
    /\ pc' = [pc EXCEPT ![s] = [@ EXCEPT !["e"] = "wait", !["h"] = Notified(@)]]
    /\ UNCHANGED << serverVars, req, resp, srvIdx, votes, entryIndex, clientEntry,
                    delayed, budgetVars, granted, acked >>
    /\ UNCHANGED << raceVars, unitVars, clientVars >>

\* send_heartbeats_and_sync_up, lines 211 and 220-222: the role is read as not
\* Leader and timeout = None is chosen; the lock is not yet held
SignalRoleCheck(s) ==
    /\ pc[s]["h"] \in {"check", "waitT"}
    /\ role[s] # "Leader"
    /\ pc' = [pc EXCEPT ![s]["h"] = "towait"]
    /\ UNCHANGED << serverVars, req, resp, srvIdx, votes, entryIndex, clientEntry,
                    delayed, budgetVars, granted, acked >>
    /\ UNCHANGED << raceVars, unitVars, clientVars >>

\* send_heartbeats_and_sync_up, lines 223-224 with timeout None: the thread blocks
SignalWait(s) ==
    /\ pc[s]["h"] = "towait"
    /\ pc' = [pc EXCEPT ![s]["h"] = "waitN"]
    /\ UNCHANGED << serverVars, req, resp, srvIdx, votes, entryIndex, clientEntry,
                    delayed, budgetVars, granted, acked >>
    /\ UNCHANGED << raceVars, unitVars, clientVars >>

\* send_heartbeats_and_sync_up, lines 211-213: the role is read as Leader, the pass begins
SignalPass(s, b) ==
    /\ role[s] = "Leader"
    /\ HeartbeatCheck(s, b)

NextSignal ==
    \/ \E s \in Servers : ElectionSkip(s)
    \/ \E s \in Servers : StartElection(s, SignalBounds)
    \/ \E s \in Servers : \E r \in Results(s, "e") : SignalElectionRecv(s, r, SignalBounds)
    \/ \E s \in Servers : SignalNotify(s)
    \/ \E s \in Servers : SignalRoleCheck(s)
    \/ \E s \in Servers : SignalWait(s)
    \/ \E s \in Servers : SignalPass(s, SignalBounds)
    \/ \E s \in Servers : \E r \in Results(s, "h") : HeartbeatRecv(s, r, FALSE, SignalBounds)
    \/ \E s \in Servers : \E t \in Threads : Deliver(s, t)

\* every thread that can take its next step eventually takes it, and every
\* request sent is answered
SignalFairness ==
    \A s \in Servers :
        /\ \A t \in {"e", "h"} : WF_vars(Deliver(s, t))
        /\ WF_vars(\E r \in Results(s, "e") : SignalElectionRecv(s, r, SignalBounds))
        /\ WF_vars(SignalNotify(s))
        /\ WF_vars(SignalRoleCheck(s))
        /\ WF_vars(SignalWait(s))
        /\ WF_vars(SignalPass(s, SignalBounds))
        /\ WF_vars(\E r \in Results(s, "h") : HeartbeatRecv(s, r, FALSE, SignalBounds))

SpecSignal == InitSignal /\ [][NextSignal]_vars /\ SignalFairness

\* ================================================================ claims
\* C1 (State Machine Safety): no two replicas hold different entries (payloads)
\* at an index that both have committed.
StateMachineSafety ==
    \A r1, r2 \in Servers : \A i \in 1 .. MaxRequests + 1 :
        (/\ commitIndex[r1] >= i /\ len(log[r1]) >= i
         /\ commitIndex[r2] >= i /\ len(log[r2]) >= i)
            => log[r1][i].entry = log[r2][i].entry

\* C2 (Election Safety): for every term there is at most one replica that is
\* Leader with that current term.
ElectionSafety ==
    \A s1, s2 \in Servers :
        (role[s1] = "Leader" /\ role[s2] = "Leader" /\ currentTerm[s1] = currentTerm[s2])
            => s1 = s2

\* C3: a replica grants its vote, for requests carrying one term, to at most
\* one candidate over the whole execution.
OneVotePerTerm ==
    \A g1, g2 \in granted :
        (g1[1] = g2[1] /\ g1[2] = g2[2]) => g1[3] = g2[3]

\* C5: commitIndex never decreases at any replica from one state to the next.
CommitIndexMonotonic ==
    [][\A s \in Servers : commitIndex'[s] >= commitIndex[s]]_vars

\* C6 (Log Matching): if two logs hold an entry with the same term at index i,
\* the logs are identical (term and payload) at every index below i.
LogMatching ==
    \A r1, r2 \in Servers : \A i \in 1 .. MaxRequests + 1 :
        (/\ len(log[r1]) >= i /\ len(log[r2]) >= i
         /\ log[r1][i].term = log[r2][i].term)
            => \A j \in 1 .. i - 1 : log[r1][j] = log[r2][j]

\* C7: once a client has been answered success for a payload at index idx, a
\* majority of the replicas hold that payload at idx, now and ever after.
AckedOnMajority ==
    \A a \in acked :
        Cardinality({s \in Servers :
            len(log[s]) >= a[1] /\ log[s][a[1]].entry = a[2]}) >= majority

SyncTooBigIndexRejected ==
    /\ [](  (tcall.op = "sync" /\ tcall.index > len(tcall.before)) =>
                (tcall.ok /\ ~tcall.ret /\ tlog = tcall.before)  )
    /\ [][ (/\ tcall.op = "sync" /\ tcall.index > len(tcall.before)
            /\ tcall'.op = "append") =>
                tcall'.val = len(tcall.before) + 1 ]_vars

SyncTooBigIndexSeen ==
    /\ tcall.op = "sync"
    /\ tcall.index > len(tcall.before)
    /\ len(tcall.before) >= 1

\* C4: at the replica whose threads run unsynchronised, currentTerm never
\* decreases from one state to the next.
TermMonotonic == [][currentTerm'[Me] >= currentTerm[Me]]_vars

\* C8: while a leader holds a reply with a higher term and has not yet become
\* Follower, no append_item on behalf of a ClientAppend request happens on it.
NoAppendBeforeStepDown ==
    [][pending => ~(pc[Me]["c"] = "append" /\ pc'[Me]["c"] # "append")]_vars

\* C11: for every index with 0 <= index <= len, sync_at_item(index, term) leaves
\* the log and returns the result that the specified reference gives: on a term
\* mismatch the prefix of length index-1 and true exactly when it is empty,
\* otherwise the prefix of length index and true.
SyncAgreesWithReference ==
    (tcall.op = "sync" /\ tcall.index <= len(tcall.before)) =>
        LET l == tcall.before
            prefix(n) == [i \in 1 .. (IF n < Len(l) THEN n ELSE Len(l)) |-> l[i]]
            stored == IF tcall.index = 0 THEN 0 ELSE l[tcall.index].term
            mismatch == stored # tcall.term
            kept == IF mismatch THEN prefix(tcall.index - 1) ELSE prefix(tcall.index)
        IN  /\ tcall.ok
            /\ tlog = kept
            /\ tcall.ret = (IF mismatch THEN kept = << >> ELSE TRUE)

\* the fields of replica d that an AppendEntries handler can write are unchanged
HandlerLeft(d) ==
    /\ role'[d] = role[d]
    /\ currentTerm'[d] = currentTerm[d]
    /\ votedFor'[d] = votedFor[d]
    /\ leaderId'[d] = leaderId[d]
    /\ talkedToLeader'[d] = talkedToLeader[d]
    /\ log'[d] = log[d]
    /\ commitIndex'[d] = commitIndex[d]

\* C12: when a replica handles an AppendEntries request whose term is smaller
\* than its currentTerm, it replies {term: currentTerm, success: false} and its
\* role, currentTerm, votedFor, leaderId, talkedToLeader, log and commitIndex
\* stay as they were.
StaleAppendRejected ==
    [][ /\ \A s \in Servers : \A t \in Threads :
              (/\ pc[s][t] = "sent" /\ pc'[s][t] = "replied"
               /\ req[s][t].type = "AE"
               /\ req[s][t].term < currentTerm[req[s][t].dst]) =>
                  /\ resp'[s][t] = AEResponse(currentTerm[req[s][t].dst], FALSE)
                  /\ HandlerLeft(req[s][t].dst)
        /\ \A m \in delayed \ delayed' :
              (m.type = "AE" /\ m.term < currentTerm[m.dst]) => HandlerLeft(m.dst)
      ]_vars

StaleAppendAnswered ==
    \E s \in Servers : \E t \in Threads :
        /\ pc[s][t] = "replied"
        /\ req[s][t].type = "AE"
        /\ resp[s][t] # Null
        /\ resp[s][t].term > req[s][t].term
        /\ ~resp[s][t].success

\* C13: whenever a replica's currentTerm changes value, its votedFor is None in
\* the state right after the change.
VotedForClearedOnTermChange ==
    [][\A s \in Servers : currentTerm'[s] # currentTerm[s] => votedFor'[s] = None]_vars

\* C14: on every replica, nextIndex[peer] is greater than 0 for every peer: the
\* decrement in append_entry_to_follower never brings it to 0.
NextIndexPositive ==
    \A s \in Servers : \A p \in DOMAIN nextIndex[s] : nextIndex[s][p] > 0

\* C15: when the transport returns no reply to an AppendEntries sent by the
\* heartbeat/sync driver or the ClientAppend loop, no error is raised and no
\* replica state changes: the thread goes on to its next request (or, for the
\* driver after its last peer, to its timed wait).
NullReplyTolerated ==
    [][\A s \in Servers : \A t \in {"h", "c"} :
          (/\ pc[s][t] \in {"sent", "replied"}
           /\ faults' = faults + 1
           /\ req'[s][t] # req[s][t]) =>
              /\ pc'[s][t] = "sent" \/ (t = "h" /\ pc'[s][t] = "waitT")
              /\ UNCHANGED serverVars
      ]_vars

\* C19: the term of every AppendEntries response equals the currentTerm the
\* replying replica has when it replies, also when it has just adopted the
\* request's higher term.
AppendReplyCarriesCurrentTerm ==
    [][\A s \in Servers : \A t \in Threads :
          (/\ pc[s][t] = "sent" /\ pc'[s][t] = "replied"
           /\ req[s][t].type = "AE"
           /\ resp'[s][t] # Null) =>
              resp'[s][t].term = currentTerm'[req[s][t].dst]
      ]_vars

\* C20: handle_vote_request grants exactly when request.term >= currentTerm,
\* votedFor is unset or equals candidateId, the replica's last log term is
\* <= lastLogTerm and its log length is <= lastLogIndex; on grant it sets
\* votedFor = candidateId and nothing else, on reject it changes nothing, and
\* the reply term is the replica's currentTerm.
VoteRule ==
    [][\A s \in Servers :
          (/\ pc[s]["e"] = "sent" /\ pc'[s]["e"] = "replied"
           /\ req[s]["e"].type = "RV") =>
              LET m == req[s]["e"]
                  d == m.dst
                  lastTerm == IF Len(log[d]) = 0 THEN 0 ELSE log[d][Len(log[d])].term
                  grant == /\ m.term >= currentTerm[d]
                           /\ votedFor[d] = None \/ votedFor[d] = m.candidateId
                           /\ lastTerm <= m.lastLogTerm
                           /\ Len(log[d]) <= m.lastLogIndex
              IN  /\ resp'[s]["e"] = RVResponse(currentTerm[d], grant)
                  /\ votedFor'[d] = IF grant THEN m.candidateId ELSE votedFor[d]
                  /\ currentTerm'[d] = currentTerm[d]
                  /\ role'[d] = role[d]
                  /\ leaderId'[d] = leaderId[d]
                  /\ talkedToLeader'[d] = talkedToLeader[d]
                  /\ log'[d] = log[d]
                  /\ commitIndex'[d] = commitIndex[d]
      ]_vars

VoteRefusedAndGranted ==
    /\ granted # {}
    /\ \E s \in Servers :
          /\ pc[s]["e"] = "replied"
          /\ resp[s]["e"] # Null
          /\ ~resp[s]["e"].voteGranted

\* C18: handing a follower a second copy of an AppendEntries request it has
\* already processed with success, at once or after later requests of the same
\* leader and term, leaves its log and commitIndex as they were just before.
DuplicateAppendIdempotent ==
    [][\A m \in delayed \ delayed' :
          /\ log'[m.dst] = log[m.dst]
          /\ commitIndex'[m.dst] = commitIndex[m.dst]
      ]_vars

\* C16: if a ClientAppend handler on a leader is waiting for the entry it
\* appended at index idx and the leader's commitIndex is >= idx, the handler
\* eventually returns success = true for that entry.
ClientAppendReturns ==
    \A t \in Handlers : \A idx \in 1 .. MaxLiveRequests :
        (/\ pc[Me][t] \in {"sent", "replied"}
         /\ entryIndex[Me][t] = idx
         /\ clientEntry[Me][t] = 10 * Me + idx
         /\ role[Me] = "Leader"
         /\ commitIndex[Me] >= idx)
            ~> (<< idx, 10 * Me + idx >> \in acked)

\* C17: with replica Me the stable leader, its peers reachable and every other
\* replica reporting leaderId = Me, a call of Client.append_entries that is
\* under way with any cached leader eventually returns; a result
\* {success: false, leader: X} leaves X cached and the next request goes to X,
\* a result with a null leader leaves the cache empty, and the call has
\* returned only on a result with success = true.
StableLeader ==
    /\ role[Me] = "Leader"
    /\ \A s \in Servers \ {Me} : leaderId[s] = Me

ClientFollowsResult ==
    /\ cpc = "done" => (result # Null /\ result # NoMsg /\ result.success)
    /\ (result \notin {Null, NoMsg} /\ ~result.success /\ result.leader # None)
          => leader = result.leader
    /\ (cpc = "run" /\ result \notin {Null, NoMsg} /\ ~result.success
          /\ result.leader = None) => leader = None

PromotionSignalNotLost ==
    \A s \in Servers : \A p \in Servers \ {s} :
        (pc[s]["e"] = "promoted")
            ~> (\/ pc[s]["h"] = "sent" /\ req[s]["h"].dst = p
                \/ role[s] # "Leader"
                \/ beats = MaxSignalBeats)

\* the step in which thread t of s takes the successful reply to an
\* AppendEntries that carried an entry, so that lines 339-345 run
\* try_leader_commit(prevLogIndex + 1)
CommitRuleStep(s, t) ==
    /\ pc[s][t] = "replied"
    /\ req[s][t].type = "AE"
    /\ resp[s][t] # Null
    /\ resp'[s][t] = NoMsg
    /\ faults' = faults
    /\ resp[s][t].success
    /\ req[s][t].entry # None
    /\ ~(resp[s][t].term > currentTerm[s])

CommitWithinLog ==
    \A s \in Servers : commitIndex[s] <= len(log[s])

\* C24: on a leader, for every peer the next index lies between 1 and the
\* length of the log plus one and the match index is below the next index.
NextIndexWithinLog ==
    \A s \in Servers :
        role[s] = "Leader" =>
            \A p \in DOMAIN nextIndex[s] :
                /\ 1 <= nextIndex[s][p]
                /\ nextIndex[s][p] <= len(log[s]) + 1
                /\ matchIndex[s][p] < nextIndex[s][p]

\* C25: when a follower answers success = true to an AppendEntries of a leader
\* whose entry is the leader's log entry at prevLogIndex + 1, the follower's log then has
\* length prevLogIndex + 1 and its last entry has the payload and the term of
\* the sender's entry at that index.
AcceptedEntryMatchesLeader ==
    [][\A s \in Servers : \A t \in {"h", "c", "d"} :
          (/\ pc[s][t] = "sent" /\ pc'[s][t] = "replied"
           /\ req[s][t].type = "AE"
           /\ role[s] = "Leader"
           /\ req[s][t].entry # None
           /\ resp'[s][t] # Null
           /\ resp'[s][t].success
           /\ req[s][t].prevLogIndex >= 0
           /\ Len(log[s]) >= req[s][t].prevLogIndex + 1
           /\ log[s][req[s][t].prevLogIndex + 1].entry = req[s][t].entry) =>
              LET d == req[s][t].dst
                  i == req[s][t].prevLogIndex + 1
              IN  /\ Len(log'[d]) = i
                  /\ log'[d][i] = log[s][i]
      ]_vars

====
